---- MODULE Spec2Model ----
(***************************************************************************)
(* Model of the rewatchability autopilot: the polling loop of main.run,    *)
(* the per-league handler main._process_league, the ledger of ledger.py,   *)
(* the NBA curve of scoring.py and the PreCap fetch of inpredictable.py.   *)
(*                                                                         *)
(* Time is counted in whole days.  Excitement values are integers in       *)
(* units of 1e-8, so that the anchors of scoring.py are exact integers and *)
(* the bands are evaluated in exact rational arithmetic.                   *)
(***************************************************************************)
EXTENDS Integers, Sequences, FiniteSets, TLC

VARIABLES
    pc,         \* position of run(): "boot", "league", "save", "sleep", "dead"
    idx,        \* index into SPORTS of the league processed next
    now,        \* the clock, in days
    ledger,     \* the in-memory ledger dict of run()
    disk,       \* the ledger file at LEDGER_PATH
    last,       \* what the most recent operation was given and what it did
    posts,      \* per id: mark_posted calls since its entry was last pruned
    lastSurfaced, \* per id: day of the latest mark_posted call, NoTime if none
    resurfaced, \* ids surfaced again within LEDGER_DAYS of a previous surfacing
    autoEver,   \* per sport: ids surfaced by the per-event rule on the current date
    fbEver,     \* per sport: ids surfaced by the fallback on the current date
    crashes     \* how many times the process has died and been restarted

vars == <<pc, idx, now, ledger, disk, last, posts, lastSurfaced, resurfaced,
          autoEver, fbEver, crashes>>

-----------------------------------------------------------------------------
(* Bounds and input domains *)

MaxTime == 16
MaxCrashes == 1
StartTime == 8

\* the events the scoreboard collaborator may list, with their team nicknames
EventIds == {"e1", "e2", "w1"}

EventSport(id) == IF id = "w1" THEN "WNBA" ELSE "NBA"

EventAway(id) == CASE id = "e1" -> "Celtics"
                   [] id = "e2" -> "Lakers"
                   [] OTHER     -> "Aces"

EventHome(id) == CASE id = "e1" -> "Knicks"
                   [] id = "e2" -> "Warriors"
                   [] OTHER     -> "Liberty"

\* broadcast strings, as sequences of characters
Broadcasts == { <<>>, <<" ">>, <<"T", "N", "T">> }

\* excitement values (1e-8 units): 0.1, 0.15 and 13.7; NoEI is a missing key
NoEI == -1
EIValues == {10000000, 15000000, 1370000000}

NoTime == 0 - 1

-----------------------------------------------------------------------------
(* Program constants *)

LEDGER_DAYS == 7

SPORTS == <<"NBA", "WNBA">>

NBA_E_MIN == 536000
NBA_E_MED == 16262000
\* a third anchor that lies below the second
NBA_E_90_Misordered == NBA_E_MED - NBA_E_MIN

NBA_E_90 == 26327400
NBA_E_99 == 34182720
NBA_E_MAX == 42322000

NFL_E_MIN == 984000
NFL_E_MED == 8726900
NFL_E_90 == 14447280
NFL_E_99 == 22292766
NFL_E_MAX == 29737400

MLB_E_MIN == 326000
MLB_E_MED == 4436000
MLB_E_90 == 7553400
MLB_E_99 == 11039920
MLB_E_MAX == 16694000

NCAAF_E_MIN == 2600
NCAAF_E_MED == 6041600
NCAAF_E_90 == 12791800
NCAAF_E_99 == 18763070
NCAAF_E_MAX == 28678600

NCAAB_E_MIN == 2000
NCAAB_E_MED == 7897000
NCAAB_E_90 == 15683400
NCAAB_E_99 == 21329260
NCAAB_E_MAX == 33728000

\* main.NAME_TO_INPRED restricted to the nicknames of the events; "" is None
NAME_TO_INPRED(name) ==
    CASE name = "Celtics"  -> "BOS"
      [] name = "Knicks"   -> "NYK"
      [] name = "Lakers"   -> "LAL"
      [] name = "Warriors" -> "GSW"
      [] name = "Aces"     -> "LVA"
      [] name = "Liberty"  -> "NYL"
      [] OTHER             -> ""

-----------------------------------------------------------------------------
(* str.strip and str.upper on sequences of characters *)

\* the characters str.strip() removes
IsSpace(c) == c \in {" ", "\t", "\n"}

RECURSIVE LStrip(_)
LStrip(s) == IF s # <<>> /\ IsSpace(Head(s)) THEN LStrip(Tail(s)) ELSE s

RECURSIVE RStrip(_)
RStrip(s) ==
    IF s # <<>> /\ IsSpace(s[Len(s)]) THEN RStrip(SubSeq(s, 1, Len(s) - 1)) ELSE s

Strip(s) == RStrip(LStrip(s))

-----------------------------------------------------------------------------
(* scoring.py *)

\* a rounding that takes every tie upwards
RoundHalfUp(n, d) ==
    IF 2 * (n % d) < d THEN n \div d ELSE (n \div d) + 1

\* Python round(): nearest integer, ties to even, of n/d with n >= 0, d > 0
RoundHalfEven(n, d) ==
    LET q == n \div d
        r == n % d
    IN  IF 2 * r < d THEN q
        ELSE IF 2 * r > d THEN q + 1
        ELSE IF q % 2 = 0 THEN q ELSE q + 1

\* a curve whose second band falls from 70 instead of rising to 90
Piecewise_FallingBand(E, eMin, eMed, e90, e99, eMax) ==
    IF E <= eMin THEN [num |-> 40, den |-> 1]
    ELSE IF E <= eMed THEN
        [num |-> 40 * (eMed - eMin) + 30 * (E - eMin), den |-> eMed - eMin]
    ELSE IF E <= e90 THEN
        [num |-> 70 * (e90 - eMed) - 20 * (E - eMed), den |-> e90 - eMed]
    ELSE IF E <= e99 THEN
        [num |-> 90 * (e99 - e90) + 9 * (E - e90), den |-> e99 - e90]
    ELSE IF E <= eMax THEN
        [num |-> 99 * (eMax - e99) + 1 * (E - e99), den |-> eMax - e99]
    ELSE [num |-> 100, den |-> 1]

\* the shared piecewise shape, s = num/den before clamping and rounding
Piecewise(E, eMin, eMed, e90, e99, eMax) ==
    IF E <= eMin THEN [num |-> 40, den |-> 1]
    ELSE IF E <= eMed THEN
        [num |-> 40 * (eMed - eMin) + 30 * (E - eMin), den |-> eMed - eMin]
    ELSE IF E <= e90 THEN
        [num |-> 70 * (e90 - eMed) + 20 * (E - eMed), den |-> e90 - eMed]
    ELSE IF E <= e99 THEN
        [num |-> 90 * (e99 - e90) + 9 * (E - e90), den |-> e99 - e90]
    ELSE IF E <= eMax THEN
        [num |-> 99 * (eMax - e99) + 1 * (E - e99), den |-> eMax - e99]
    ELSE [num |-> 100, den |-> 1]

ClampRound(s) ==
    LET lo == IF s.num < 40 * s.den THEN [num |-> 40, den |-> 1] ELSE s
        hi == IF lo.num > 100 * lo.den THEN [num |-> 100, den |-> 1] ELSE lo
    IN  RoundHalfEven(hi.num, hi.den)

score_nba(E) ==
    ClampRound(Piecewise(E, NBA_E_MIN, NBA_E_MED, NBA_E_90, NBA_E_99, NBA_E_MAX))

score_nfl(E) ==
    ClampRound(Piecewise(E, NFL_E_MIN, NFL_E_MED, NFL_E_90, NFL_E_99, NFL_E_MAX))

score_mlb(E) ==
    ClampRound(Piecewise(E, MLB_E_MIN, MLB_E_MED, MLB_E_90, MLB_E_99, MLB_E_MAX))

score_ncaaf(E) ==
    ClampRound(Piecewise(E, NCAAF_E_MIN, NCAAF_E_MED, NCAAF_E_90, NCAAF_E_99,
                         NCAAF_E_MAX))

\* the college basketball curve written with the NBA anchors
score_ncaab_NbaAnchors(E) ==
    ClampRound(Piecewise(E, NBA_E_MIN, NBA_E_MED, NBA_E_90, NBA_E_99, NBA_E_MAX))

score_ncaab(E) ==
    ClampRound(Piecewise(E, NCAAB_E_MIN, NCAAB_E_MED, NCAAB_E_90, NCAAB_E_99,
                         NCAAB_E_MAX))

\* str.upper() on the letters, character by character
UpperChar(c) ==
    CASE c = "a" -> "A" [] c = "b" -> "B" [] c = "c" -> "C" [] c = "d" -> "D"
      [] c = "e" -> "E" [] c = "f" -> "F" [] c = "g" -> "G" [] c = "h" -> "H"
      [] c = "i" -> "I" [] c = "j" -> "J" [] c = "k" -> "K" [] c = "l" -> "L"
      [] c = "m" -> "M" [] c = "n" -> "N" [] c = "o" -> "O" [] c = "p" -> "P"
      [] c = "q" -> "Q" [] c = "r" -> "R" [] c = "s" -> "S" [] c = "t" -> "T"
      [] c = "u" -> "U" [] c = "v" -> "V" [] c = "w" -> "W" [] c = "x" -> "X"
      [] c = "y" -> "Y" [] c = "z" -> "Z" [] OTHER -> c

Upper(s) == [i \in 1..Len(s) |-> UpperChar(s[i])]

\* a dispatch that answers 0 for a key it does not know
score_key_UnknownZero(key, E) ==
    IF key = <<"N", "B", "A">> THEN score_nba(E) ELSE 0

\* the if/elif chain on the normalized key; a key without a branch (WNBA
\* among them) takes the floor
score_key(key, E) ==
    IF key = <<"N", "B", "A">> THEN score_nba(E)
    ELSE IF key = <<"N", "F", "L">> THEN score_nfl(E)
    ELSE IF key = <<"M", "L", "B">> THEN score_mlb(E)
    ELSE IF key \in {<<"N", "C", "A", "A", "F">>, <<"C", "F", "B">>}
    THEN score_ncaaf(E)
    ELSE IF key \in {<<"N", "C", "A", "A", "B">>, <<"C", "B", "B">>,
                     <<"N", "C", "A", "A", "M">>}
    THEN score_ncaab(E)
    ELSE 40

\* an entry point that compares the key as it was passed
score_game_NoNormalize(sport, ei) == score_key(sport, ei)

\* score_game(sport, ei).score, the sport a sequence of characters:
\* key = sport.upper().strip()
score_game(sport, ei) == score_key(Strip(Upper(sport)), ei)

-----------------------------------------------------------------------------
(* ledger.py *)

NoEntry == [kind |-> "none", t |-> NoTime]

Aware(t) == [kind |-> "aware", t |-> t]
Naive(t) == [kind |-> "naive", t |-> t]
Corrupt == [kind |-> "corrupt", t |-> NoTime]

EmptyLedger == [id \in EventIds |-> NoEntry]

Keys(led) == {id \in EventIds : led[id].kind # "none"}

\* a JSON value of the file that is not a string (a number)
JsonNumber == [kind |-> "number", t |-> NoTime]

\* str(v) of a value of the file: a string stays as it is, a number becomes
\* its digits, which are no timestamp
StrOf(v) == IF v.kind = "number" THEN Corrupt ELSE v

\* a loader that hands the parsed values on as they are
load_ledger_RawValues(file) ==
    IF file.state = "ok" THEN file.data ELSE EmptyLedger

\* a file that is missing ("missing"), cannot be read ("unreadable"), is
\* not JSON ("malformed") or holds JSON that is no object ("nonobject")
\* yields the empty ledger; an object yields its items as strings
load_ledger(file) ==
    IF file.state = "ok"
    THEN [id \in EventIds |-> StrOf(file.data[id])]
    ELSE EmptyLedger

already_posted(led, event_id) == led[event_id].kind # "none"

mark_posted(led, event_id, t) == [led EXCEPT ![event_id] = Aware(t)]

\* datetime.fromisoformat fails on a corrupt string only
Parses(entry) == entry.kind \in {"aware", "naive"}

\* "when >= cutoff" raises TypeError when `when` carries no timezone; the
\* loop of prune_ledger reaches that comparison for every entry that parses
PruneRaises(led) == \E id \in Keys(led) : led[id].kind = "naive"

PruneKeeps(entry, t, days) == Parses(entry) /\ entry.t >= t - days

\* the ledger prune_ledger leaves; when it raises, clear()/update() are not
\* reached and the dict is as it was
prune_ledger(led, t, days) ==
    IF PruneRaises(led) THEN led
    ELSE [id \in EventIds |->
            IF already_posted(led, id) /\ PruneKeeps(led[id], t, days)
            THEN led[id] ELSE NoEntry]

-----------------------------------------------------------------------------
(* inpredictable.py *)

\* fetch_precap_html: only NBA has a page; the request itself may fail
FetchError(sport, net) ==
    IF sport # "NBA" THEN "Invalid sport"
    ELSE IF net = "neterr" THEN "network" ELSE ""

\* what _parse_precap_date_iso finds in the page header, relative to the
\* game day of the cycle: that day, the day before, or no date ("none")
Headers == {"today", "yesterday", "none"}

\* the date check of fetch_excitement_map: with expected_date_iso given
\* (anything but "unset"), a page without a header date or with another
\* date yields the empty map; without it the parsed rows are returned
DateChecked(expected_date_iso, header_date_iso, parsed, empty) ==
    IF expected_date_iso # "unset"
    THEN IF header_date_iso = "none" THEN empty
         ELSE IF header_date_iso # expected_date_iso THEN empty
         ELSE parsed
    ELSE parsed

PairKeys == { <<"BOS", "NYK">>, <<"LAL", "GSW">> }

ExciteMaps == [PairKeys -> EIValues \cup {NoEI}]

NoMap == [k \in PairKeys |-> NoEI]

MapGet(emap, key) == IF key \in DOMAIN emap THEN emap[key] ELSE NoEI

-----------------------------------------------------------------------------
(* main._process_league *)

\* posting_rules.should_auto_post: national TV or 70+
should_auto_post(score, network, sport) ==
    score >= 70 \/ network # <<>>

ExciteRaw(g, emap) ==
    LET away_code == NAME_TO_INPRED(g.away)
        home_code == NAME_TO_INPRED(g.home)
    IN  IF away_code # "" /\ home_code # ""
        THEN MapGet(emap, <<away_code, home_code>>)
        ELSE NoEI

\* the characters of a name of SPORTS
Chars(sport) ==
    IF sport = "NBA" THEN <<"N", "B", "A">> ELSE <<"W", "N", "B", "A">>

\* a row scored as 40 + 4 * EI capped at 99 (EI / 25000000 is 4 * EI in
\* units of one)
Row_Linear(sport, g, emap) ==
    [id |-> g.id,
     score |-> IF ExciteRaw(g, emap) = NoEI THEN 40
               ELSE IF 40 + RoundHalfEven(ExciteRaw(g, emap), 25000000) > 99 THEN 99
               ELSE 40 + RoundHalfEven(ExciteRaw(g, emap), 25000000),
     raw |-> ExciteRaw(g, emap),
     auto |-> should_auto_post(
                IF ExciteRaw(g, emap) = NoEI THEN 40
                ELSE IF 40 + RoundHalfEven(ExciteRaw(g, emap), 25000000) > 99 THEN 99
                ELSE 40 + RoundHalfEven(ExciteRaw(g, emap), 25000000),
                Strip(g.broadcast), sport)]

\* one scored_rows tuple (game id, score_val, excite_raw, auto_rule)
Row(sport, g, emap) ==
    LET excite_raw == ExciteRaw(g, emap)
        raw_for_scoring == IF excite_raw # NoEI THEN excite_raw ELSE 0
        score_val == score_game(Chars(sport), raw_for_scoring)
        network == Strip(g.broadcast)
    IN  [id |-> g.id, score |-> score_val, raw |-> excite_raw,
         auto |-> should_auto_post(score_val, network, sport)]

\* a per-event rule that forgets to consult the ledger
ShouldMark_NoLedgerCheck(led, row) == row.auto

\* lines 237-243: mark_posted only for a game not yet in the ledger that
\* meets the auto rule
ShouldMark(led, row) == ~already_posted(led, row.id) /\ row.auto

\* the loop body for one final game: append its row, mark it when due
LoopBody(acc, row, t) ==
    LET post == ShouldMark(acc.led, row)
    IN  [led  |-> IF post THEN mark_posted(acc.led, row.id, t) ELSE acc.led,
         auto |-> IF post THEN acc.auto \cup {row.id} ELSE acc.auto,
         rows |-> Append(acc.rows, row),
         missing |-> IF row.raw = NoEI THEN acc.missing \cup {row.id}
                                       ELSE acc.missing]

\* a loop that scores every game of the scoreboard, final or not
RECURSIVE EventLoop_ScoresAll(_, _, _, _, _, _)
EventLoop_ScoresAll(sport, games, emap, t, i, acc) ==
    IF i > Len(games) THEN acc
    ELSE EventLoop_ScoresAll(sport, games, emap, t, i + 1,
                             LoopBody(acc, Row(sport, games[i], emap), t))

\* the "for g in games" loop from position i, threading the ledger
RECURSIVE EventLoop(_, _, _, _, _, _)
EventLoop(sport, games, emap, t, i, acc) ==
    IF i > Len(games) THEN acc
    ELSE IF ~games[i].is_final
    THEN EventLoop(sport, games, emap, t, i + 1, acc)
    ELSE EventLoop(sport, games, emap, t, i + 1,
                   LoopBody(acc, Row(sport, games[i], emap), t))

\* a maximum that keeps the last row of greatest score
BestRow_LastMax(rows) ==
    rows[CHOOSE i \in 1..Len(rows) :
            /\ \A j \in 1..Len(rows) : rows[j].score <= rows[i].score
            /\ \A j \in (i + 1)..Len(rows) : rows[j].score < rows[i].score]

\* Python max(scored_rows, key=score): the first row of greatest score
BestRow(rows) ==
    rows[CHOOSE i \in 1..Len(rows) :
            /\ \A j \in 1..Len(rows) : rows[j].score <= rows[i].score
            /\ \A j \in 1..(i - 1) : rows[j].score < rows[i].score]

AllFinal(games) == \A i \in 1..Len(games) : games[i].is_final

\* a fallback that does not wait for missing excitement values
FallbackPick_NoMissingCheck(games, loop) ==
    IF loop.rows = <<>> THEN {}
    ELSE IF \E i \in 1..Len(loop.rows) : loop.rows[i].auto THEN {}
    ELSE IF ~AllFinal(games) THEN {}
    ELSE LET best_id == BestRow(loop.rows).id
         IN  IF already_posted(loop.led, best_id) THEN {} ELSE {best_id}

\* a fallback that marks its pick without consulting the ledger
FallbackPick_NoLedgerCheck(games, loop) ==
    IF loop.rows = <<>> THEN {}
    ELSE IF \E i \in 1..Len(loop.rows) : loop.rows[i].auto THEN {}
    ELSE IF ~AllFinal(games) THEN {}
    ELSE IF loop.missing # {} THEN {}
    ELSE {BestRow(loop.rows).id}

\* a fallback that runs although the per-event rule was met
FallbackPick_IgnoresAuto(games, loop) ==
    IF loop.rows = <<>> THEN {}
    ELSE IF ~AllFinal(games) THEN {}
    ELSE IF loop.missing # {} THEN {}
    ELSE LET best_id == BestRow(loop.rows).id
         IN  IF already_posted(loop.led, best_id) THEN {} ELSE {best_id}

\* a handler that returns before the fallback
FallbackPick_Never(games, loop) == {}

\* the tail of _process_league after the loop: the id the fallback surfaces
FallbackPick(games, loop) ==
    IF loop.rows = <<>> THEN {}
    ELSE IF \E i \in 1..Len(loop.rows) : loop.rows[i].auto THEN {}
    ELSE IF ~AllFinal(games) THEN {}
    ELSE IF loop.missing # {} THEN {}
    ELSE LET best_id == BestRow(loop.rows).id
         IN  IF already_posted(loop.led, best_id) THEN {} ELSE {best_id}

NoRun(led) == [led |-> led, auto |-> {}, fb |-> {}, rows |-> <<>>,
               missing |-> {}, raised |-> FALSE]

\* what the handler leaves behind once the loop is done and the fallback
\* has picked fb (empty, or the one id it surfaces)
AfterLoop(loop, fb, t) ==
    [led |-> IF fb = {} THEN loop.led
             ELSE mark_posted(loop.led, CHOOSE b \in fb : TRUE, t),
     auto |-> loop.auto, fb |-> fb, rows |-> loop.rows,
     missing |-> loop.missing, raised |-> FALSE]

\* the fallback section applied to the outcome of the loop
LoopThenFallback(games, loop, t) == AfterLoop(loop, FallbackPick(games, loop), t)

\* a handler whose failure path starts from a fresh ledger
ProcessResult_FailureClears(sport, sb, games, net, emap, led, t) ==
    IF sb = "raise" THEN [NoRun(EmptyLedger) EXCEPT !.raised = TRUE]
    ELSE IF games = <<>> THEN NoRun(led)
    ELSE IF FetchError(sport, net) # "" THEN [NoRun(EmptyLedger) EXCEPT !.raised = TRUE]
    ELSE LoopThenFallback(games,
            EventLoop(sport, games, emap, t, 1,
                [led |-> led, auto |-> {}, rows |-> <<>>, missing |-> {}]), t)

\* _process_league(sport, date_iso, ledger) on what the collaborators return
ProcessResult(sport, sb, games, net, emap, led, t) ==
    IF sb = "raise" THEN [NoRun(led) EXCEPT !.raised = TRUE]
    ELSE IF games = <<>> THEN NoRun(led)
    ELSE IF FetchError(sport, net) # "" THEN [NoRun(led) EXCEPT !.raised = TRUE]
    ELSE LoopThenFallback(games,
            EventLoop(sport, games, emap, t, 1,
                [led |-> led, auto |-> {}, rows |-> <<>>, missing |-> {}]), t)

-----------------------------------------------------------------------------
(* The scoreboard collaborator (espn_adapter.get_scoreboard) *)

Game(id, fin, bc) ==
    [id |-> id, away |-> EventAway(id), home |-> EventHome(id),
     is_final |-> fin, broadcast |-> bc]

\* the handler skips a game that is not final without reading its broadcast
GamesOf(id) == {Game(id, TRUE, bc) : bc \in Broadcasts} \cup {Game(id, FALSE, <<>>)}

SportEvents(sport) == {id \in EventIds : EventSport(id) = sport}

\* every ordering of every subset of the sport's events
Scoreboards(sport) ==
    {<<>>}
    \cup UNION {{<<g>> : g \in GamesOf(a)} : a \in SportEvents(sport)}
    \cup UNION {{<<g, h>> : g \in GamesOf(a), h \in GamesOf(b)} :
                    <<a, b>> \in {p \in SportEvents(sport) \X SportEvents(sport) :
                                    p[1] # p[2]}}

-----------------------------------------------------------------------------
(* State *)

NoObs == [op |-> "init", sport |-> "", sb |-> "ok", games |-> <<>>,
          net |-> "unused", emap |-> NoMap, header |-> "today",
          before |-> EmptyLedger,
          res |-> NoRun(EmptyLedger), time |-> NoTime]

Obs(op, t, before) == [NoObs EXCEPT !.op = op, !.time = t, !.before = before]

OkFile(data) == [state |-> "ok", data |-> data]

NoFile == [state |-> "missing", data |-> EmptyLedger]

InitialDisks ==
    { NoFile,
      OkFile(EmptyLedger),
      OkFile([EmptyLedger EXCEPT !["e1"] = Aware(StartTime - LEDGER_DAYS - 1)]),
      OkFile([EmptyLedger EXCEPT !["e1"] = Aware(StartTime - LEDGER_DAYS)]),
      OkFile([EmptyLedger EXCEPT !["e2"] = Corrupt,
                                 !["w1"] = Aware(StartTime)]),
      OkFile([EmptyLedger EXCEPT !["e1"] = Naive(StartTime - LEDGER_DAYS - 1)]),
      OkFile([EmptyLedger EXCEPT !["e2"] = Naive(StartTime)]),
      OkFile([EmptyLedger EXCEPT !["e1"] = JsonNumber]),
      [state |-> "unreadable", data |-> EmptyLedger],
      [state |-> "malformed", data |-> EmptyLedger],
      [state |-> "nonobject", data |-> EmptyLedger] }

\* the state when run() is entered on day t with one of the files on disk
InitWith(t, files) ==
    /\ pc = "boot"
    /\ idx = 1
    /\ now = t
    /\ ledger = EmptyLedger
    /\ disk \in files
    /\ last = NoObs
    /\ posts = [id \in EventIds |-> 0]
    /\ lastSurfaced = [id \in EventIds |-> NoTime]
    /\ resurfaced = {}
    /\ autoEver = [s \in {"NBA", "WNBA"} |-> {}]
    /\ fbEver = [s \in {"NBA", "WNBA"} |-> {}]
    /\ crashes = 0

Init == InitWith(StartTime, InitialDisks)

-----------------------------------------------------------------------------
(* Actions *)

\* run(), lines 319-320: load_ledger, prune_ledger, then the loop
Boot ==
    /\ pc = "boot"
    /\ LET loaded == load_ledger(disk)
           pruned == prune_ledger(loaded, now, LEDGER_DAYS)
       IN  /\ ledger' = pruned
           /\ pc' = IF PruneRaises(loaded) THEN "dead" ELSE "league"
           /\ last' = Obs("boot", now, loaded)
           /\ posts' = [id \in EventIds |->
                          IF already_posted(loaded, id) /\ ~already_posted(pruned, id)
                          THEN 0 ELSE posts[id]]
    /\ idx' = 1
    /\ UNCHANGED <<now, disk, lastSurfaced, resurfaced, autoEver, fbEver, crashes>>

\* one iteration of "for sport in SPORTS", the try/except included
ProcessLeague ==
    /\ pc = "league"
    /\ LET sport == SPORTS[idx] IN
       \* inputs the handler never reads are fixed to one value
       \E sb \in {"ok", "raise"}, games \in Scoreboards(sport) :
        /\ sb = "raise" => games = <<>>
        /\ \E net \in {"unused", "ok", "neterr"}, page \in ExciteMaps :
            /\ (net = "unused") <=> (games = <<>> \/ sport # "NBA")
            /\ net # "ok" => page = NoMap
            /\ \A k \in PairKeys : page[k] # NoEI =>
                  \E i \in 1..Len(games) :
                      /\ games[i].is_final
                      /\ k = <<NAME_TO_INPRED(games[i].away),
                               NAME_TO_INPRED(games[i].home)>>
            /\ \E header \in Headers :
                /\ page = NoMap => header = "today"
                \* line 191: fetch_excitement_map(sport_up), no expected date
                /\ \E emap \in {DateChecked("unset", header, page, NoMap)} :
                   \E r \in {ProcessResult(sport, sb, games, net, emap, ledger, now)} :
                   LET marked == r.auto \cup r.fb
                   IN  /\ ledger' = r.led
                       /\ last' = [op |-> "league", sport |-> sport, sb |-> sb,
                                   games |-> games, net |-> net, emap |-> emap,
                                   header |-> header,
                                   before |-> ledger, res |-> r, time |-> now]
                       /\ posts' = [id \in EventIds |->
                                      IF id \in marked
                                      THEN (IF posts[id] >= 2 THEN 2 ELSE posts[id] + 1)
                                      ELSE posts[id]]
                       /\ lastSurfaced' = [id \in EventIds |->
                                      IF id \in marked THEN now ELSE lastSurfaced[id]]
                       /\ resurfaced' = resurfaced \cup
                                      {id \in marked : /\ lastSurfaced[id] # NoTime
                                                       /\ now - lastSurfaced[id] <= LEDGER_DAYS}
                       /\ autoEver' = [autoEver EXCEPT ![sport] = @ \cup r.auto]
                       /\ fbEver' = [fbEver EXCEPT ![sport] = @ \cup r.fb]
    /\ IF idx < Len(SPORTS)
       THEN /\ idx' = idx + 1
            /\ pc' = "league"
       ELSE /\ idx' = 1
            /\ pc' = "save"
    /\ UNCHANGED <<now, disk, crashes>>

\* a save whose write error leaves the process with an empty ledger
SaveLedger_FailureClears ==
    /\ pc = "save"
    /\ \E outcome \in {"ok", "fail"} :
          /\ disk' = IF outcome = "ok" THEN OkFile(ledger) ELSE disk
          /\ ledger' = IF outcome = "ok" THEN ledger ELSE EmptyLedger
          /\ last' = [Obs("save", now, ledger) EXCEPT !.sb = outcome]
    /\ pc' = "sleep"
    /\ UNCHANGED <<idx, now, posts, lastSurfaced, resurfaced,
                   autoEver, fbEver, crashes>>

\* save_ledger at the end of the cycle; a write error is logged, not raised
SaveLedger ==
    /\ pc = "save"
    /\ \E outcome \in {"ok", "fail"} :
          /\ disk' = IF outcome = "ok" THEN OkFile(ledger) ELSE disk
          /\ last' = [Obs("save", now, ledger) EXCEPT !.sb = outcome]
    /\ pc' = "sleep"
    /\ UNCHANGED <<idx, now, ledger, posts, lastSurfaced, resurfaced,
                   autoEver, fbEver, crashes>>

SleepSteps == {0, LEDGER_DAYS + 1}

\* time.sleep(POLL_SECONDS), then date_iso = _today_iso_local() of the next cycle
Sleep ==
    /\ pc = "sleep"
    /\ \E d \in SleepSteps :
          /\ now + d <= MaxTime
          /\ now' = now + d
          /\ autoEver' = IF d = 0 THEN autoEver ELSE [s \in DOMAIN autoEver |-> {}]
          /\ fbEver' = IF d = 0 THEN fbEver ELSE [s \in DOMAIN fbEver |-> {}]
    /\ pc' = "league"
    /\ idx' = 1
    /\ last' = Obs("sleep", now, ledger)
    /\ UNCHANGED <<ledger, disk, posts, lastSurfaced, resurfaced, crashes>>

\* the process dies anywhere in a cycle and is started again
Crash ==
    /\ pc \in {"league", "save", "sleep"}
    /\ crashes < MaxCrashes
    /\ crashes' = crashes + 1
    /\ pc' = "boot"
    /\ idx' = 1
    /\ ledger' = EmptyLedger
    /\ last' = Obs("crash", now, ledger)
    /\ UNCHANGED <<now, disk, posts, lastSurfaced, resurfaced, autoEver, fbEver>>

Next == Boot \/ ProcessLeague \/ SaveLedger \/ Sleep

Spec == Init /\ [][Next]_vars

NextCrash == Boot \/ ProcessLeague \/ SaveLedger \/ Sleep \/ Crash

\* the crash runs are a first deployment (no ledger file yet) followed
\* within one game day
InitCrash == InitWith(MaxTime, {NoFile})

SpecCrash == InitCrash /\ [][NextCrash]_vars

-----------------------------------------------------------------------------
(* score_game on its own: a sport key and two excitement values are given,
   and the function is applied to one value after the other *)

\* an excitement value far beyond every E_MAX (20.0)
EIFar == 2000000000

AnchorEIs ==
    { NBA_E_MIN, NBA_E_MED, NBA_E_90, NBA_E_99, NBA_E_MAX,
      NFL_E_MIN, NFL_E_MED, NFL_E_90, NFL_E_99, NFL_E_MAX,
      MLB_E_MIN, MLB_E_MED, MLB_E_90, MLB_E_99, MLB_E_MAX,
      NCAAF_E_MIN, NCAAF_E_MED, NCAAF_E_90, NCAAF_E_99, NCAAF_E_MAX,
      NCAAB_E_MIN, NCAAB_E_MED, NCAAB_E_90, NCAAB_E_99, NCAAB_E_MAX }

\* values where a curve is exactly half way between two integers
\* (NBA 40.5 and 41.5, NFL 41.5, MLB 40.5, NCAAF 40.5, NCAAB 41.5)
TieEIs == {798100, 1322300, 1371145, 394500, 103250, 396750}

EISamples ==
    {0, EIFar} \cup TieEIs \cup UNION {{a - 1, a, a + 1} : a \in AnchorEIs}

SportInputs ==
    { <<"N", "B", "A">>, <<" ", "n", "b", "A", "\t">>, <<"N", " ", "B", "A">>,
      <<"N", "F", "L">>, <<"m", "l", "b">>,
      <<"N", "C", "A", "A", "F">>, <<"c", "f", "b", " ">>,
      <<"N", "C", "A", "A", "B">>, <<"C", "B", "B">>, <<"n", "c", "a", "a", "m">>,
      <<"W", "N", "B", "A">>, <<>> }

\* a caller holds a sport key and two excitement values
InitScore ==
    /\ pc = "score"
    /\ idx = 1
    /\ now = StartTime
    /\ ledger = EmptyLedger
    /\ disk = NoFile
    /\ last \in [op : {"score"}, sport : SportInputs,
                  eis : EISamples \X EISamples, scores : {<<>>}]
    /\ posts = [id \in EventIds |-> 0]
    /\ lastSurfaced = [id \in EventIds |-> NoTime]
    /\ resurfaced = {}
    /\ autoEver = [s \in {"NBA", "WNBA"} |-> {}]
    /\ fbEver = [s \in {"NBA", "WNBA"} |-> {}]
    /\ crashes = 0

\* one call score_game(sport, ei).score on the next excitement value
ScoreGame ==
    /\ pc = "score"
    /\ Len(last.scores) < Len(last.eis)
    /\ last' = [last EXCEPT !.scores =
                    Append(@, score_game(last.sport, last.eis[Len(@) + 1]))]
    /\ UNCHANGED <<pc, idx, now, ledger, disk, posts, lastSurfaced, resurfaced,
                   autoEver, fbEver, crashes>>

NextScore == ScoreGame

SpecScore == InitScore /\ [][NextScore]_vars

-----------------------------------------------------------------------------
(* What the most recent _process_league call saw and did *)

IsLeague == last.op = "league"

GameIdx == 1..Len(last.games)

Marked == last.res.auto \cup last.res.fb

\* the game has an excitement value in this cycle
HasEI(g) == last.net = "ok" /\ ExciteRaw(g, last.emap) # NoEI

AllHaveEI == \A i \in GameIdx : HasEI(last.games[i])

RowIds == {last.res.rows[i].id : i \in 1..Len(last.res.rows)}

-----------------------------------------------------------------------------
(* Claims *)

\* C1: over any sequence of polling cycles of one process, mark_posted is
\* called at most once for an event id while its ledger entry is not pruned.
C1_AtMostOnce == \A id \in EventIds : posts[id] <= 1

\* C1 witness: a final game that meets the auto rule is on the scoreboard
\* again after it was surfaced, and the ledger suppresses it.
C1_Witness ==
    /\ IsLeague
    /\ \E i \in GameIdx :
          LET g == last.games[i] IN
          /\ g.is_final
          /\ posts[g.id] = 1
          /\ already_posted(last.before, g.id)
          /\ g.id \notin Marked
          /\ Row(last.sport, g, last.emap).auto

\* C2: a final event with no excitement value in a cycle is not surfaced in
\* that cycle and no score is computed for it from an excitement of zero.
C2_AwaitingData ==
    IsLeague =>
        \A i \in GameIdx :
            LET g == last.games[i] IN
            (g.is_final /\ ~HasEI(g)) => (g.id \notin Marked /\ g.id \notin RowIds)

\* C3: the fallback surfaces an event in a cycle only if every event on the
\* scoreboard is final and every final event has an excitement value.
C3_FallbackGated ==
    (IsLeague /\ last.res.fb # {}) => (AllFinal(last.games) /\ AllHaveEI)

\* C3 witness: the fallback fired on a scoreboard of two final games.
C3_Witness ==
    /\ IsLeague
    /\ last.res.fb # {}
    /\ Len(last.games) = 2

\* C4: the fallback surfaces an event only if no event of that sport and
\* date was surfaced by the per-event rule, in this or an earlier cycle.
C4_NoFallbackAfterAuto ==
    (IsLeague /\ last.res.fb # {}) => autoEver[last.sport] = {}

\* C5: over all cycles for one sport and date the fallback calls
\* mark_posted for at most one event.
C5_FallbackOnce == \A s \in DOMAIN fbEver : Cardinality(fbEver[s]) <= 1

\* C6: when a cycle sees a non-empty scoreboard on which every event is
\* final and has an excitement value, at least one event of that scoreboard
\* is in the ledger at the end of the cycle.
C6_CompleteDataSurfaces ==
    (/\ IsLeague
     /\ ~last.res.raised
     /\ last.games # <<>>
     /\ AllFinal(last.games)
     /\ AllHaveEI)
    => \E i \in GameIdx : already_posted(ledger, last.games[i].id)

\* C6 witness: complete data, no game met the auto rule, and the fallback
\* supplied the surfaced event.
C6_Witness ==
    /\ IsLeague
    /\ AllFinal(last.games)
    /\ AllHaveEI
    /\ Len(last.games) = 2
    /\ last.res.auto = {}
    /\ last.res.fb # {}
    /\ \A i \in GameIdx : ~already_posted(last.before, last.games[i].id)

\* C7: after a crash anywhere in a cycle and a restart, no event surfaced
\* before the crash is surfaced again within the retention window.
C7_NoResurfaceAfterCrash == resurfaced = {}

\* C8: the prune pass runs in every cycle before the events are processed,
\* so no entry older than the retention window is in the ledger while a
\* cycle processes its leagues.
C8_PrunedEachCycle ==
    pc = "league" =>
        \A id \in Keys(ledger) :
            ledger[id].kind = "aware" => ledger[id].t >= now - LEDGER_DAYS

\* C9: prune_ledger leaves exactly the entries whose timestamp parses and is
\* not older than now minus days; every other id is no longer posted.
C9_PruneExact ==
    last.op = "boot" =>
        \A id \in EventIds :
            LET e == last.before[id]
                fresh == /\ e.kind \in {"aware", "naive"}
                         /\ e.t >= last.time - LEDGER_DAYS
            IN  IF fresh THEN ledger[id] = e ELSE ~already_posted(ledger, id)

\* C10: whatever the sport, a final event not in the ledger is surfaced by
\* the per-event rule in a cycle exactly when its score is at least 70 or
\* its broadcast field is non-empty after stripping.  Cycles whose discovery
\* or PreCap request failed in transit are left out.
C10_OrGate ==
    (IsLeague /\ last.sb = "ok" /\ last.net # "neterr") =>
        \A i \in GameIdx :
            LET g == last.games[i]
                raw == IF HasEI(g) THEN ExciteRaw(g, last.emap) ELSE 0
            IN  (g.is_final /\ ~already_posted(last.before, g.id)) =>
                    (g.id \in last.res.auto <=>
                        (\/ score_game(Chars(last.sport), raw) >= 70
                         \/ Strip(g.broadcast) # <<>>))

\* C11: when the fallback fires, the surfaced event is a final event whose
\* score is at least the score of every other final event on the scoreboard,
\* and among events of equal top score it is the first in scoreboard order.
C11_FallbackPicksTop ==
    (IsLeague /\ last.res.fb # {}) =>
        \E i \in GameIdx :
            /\ last.res.fb = {last.games[i].id}
            /\ last.games[i].is_final
            /\ \A j \in GameIdx :
                  last.games[j].is_final =>
                    /\ Row(last.sport, last.games[j], last.emap).score
                          <= Row(last.sport, last.games[i], last.emap).score
                    /\ j < i =>
                          Row(last.sport, last.games[j], last.emap).score
                            < Row(last.sport, last.games[i], last.emap).score

\* C11 witness: the fallback fired on two final games of equal score and
\* took the first of them.
C11_Witness ==
    /\ IsLeague
    /\ Len(last.games) = 2
    /\ last.res.fb = {last.games[1].id}
    /\ Row(last.sport, last.games[1], last.emap).score
          = Row(last.sport, last.games[2], last.emap).score

\* C12: an exception in discovery or in the excitement fetch while one
\* sport is processed leaves the ledger as it was and the loop alive: the
\* next sport of the cycle is processed, or after the last sport the ledger
\* is saved; the save is followed by the sleep and the sleep by a new pass
\* over every sport, the failed one included.
C12_FailureIsolated ==
    /\ (IsLeague /\ last.res.raised) =>
          /\ ledger = last.before
          /\ IF last.sport = SPORTS[Len(SPORTS)]
             THEN pc = "save"
             ELSE pc = "league" /\ idx > 1 /\ SPORTS[idx - 1] = last.sport
    /\ pc = "dead" => last.op = "boot"
    /\ last.op = "save" =>
          /\ pc = "sleep"
          /\ last.sb = "ok" => disk = OkFile(ledger)
    /\ last.op = "sleep" => (pc = "league" /\ idx = 1)

\* C12 witness: the PreCap request for the first sport failed with entries
\* in the ledger, and the second sport is next in the same cycle.
C12_Witness ==
    /\ IsLeague
    /\ last.res.raised
    /\ last.net = "neterr"
    /\ Keys(last.before) # {}
    /\ pc = "league"
    /\ SPORTS[idx] = "WNBA"

\* C13: load_ledger never raises; a missing file, unreadable or malformed
\* content and JSON that is not an object all yield the empty ledger, and an
\* object yields one string per key: the strings of the file unchanged, and
\* any other value as a string.
C13_LoadTotal ==
    last.op = "boot" =>
        /\ disk.state # "ok" => last.before = EmptyLedger
        /\ disk.state = "ok" =>
              \A id \in EventIds :
                 /\ last.before[id].kind \in {"none", "aware", "naive", "corrupt"}
                 /\ already_posted(last.before, id) <=> disk.data[id].kind # "none"
                 /\ disk.data[id].kind # "number" => last.before[id] = disk.data[id]
        /\ pc = "dead" => PruneRaises(last.before)

\* C13 witness: the file held an object with a value that is not a string.
C13_Witness ==
    /\ last.op = "boot"
    /\ disk.state = "ok"
    /\ \E id \in EventIds : disk.data[id].kind = "number"

\* C14: whatever strings the loaded ledger holds (timestamps with a zone,
\* timestamps without one, strings that are no timestamp), prune_ledger
\* returns and run() enters the polling loop with no corrupt entry left.
C14_StartupSurvives ==
    last.op = "boot" =>
        /\ pc = "league"
        /\ \A id \in EventIds : ledger[id].kind # "corrupt"

\* C15: in every cycle, each event that is scored (has a row, and so is a
\* candidate of the fallback) or surfaced (by the per-event rule or by the
\* fallback) is on the scoreboard with is_final true.
C15_OnlyFinalScored ==
    IsLeague =>
        \A id \in Marked \cup RowIds :
            \E i \in GameIdx : last.games[i].id = id /\ last.games[i].is_final

\* C15 witness: a scoreboard with a final and a non-final game, on which the
\* final one was scored and surfaced.
C15_Witness ==
    /\ IsLeague
    /\ Len(last.games) = 2
    /\ \E i, j \in GameIdx :
          /\ last.games[i].is_final
          /\ ~last.games[j].is_final
          /\ Marked = {last.games[i].id}
          /\ RowIds = {last.games[i].id}

-----------------------------------------------------------------------------
(* Claims about score_game *)

Scored == 1..Len(last.scores)

\* the anchors (E_MIN, E_MED, E_90, E_99, E_MAX) behind a sport key as the
\* caller wrote it; <<>> for a key that names no curve
AnchorsOf(sport) ==
    IF sport \in {<<"N", "B", "A">>, <<" ", "n", "b", "A", "\t">>}
    THEN <<NBA_E_MIN, NBA_E_MED, NBA_E_90, NBA_E_99, NBA_E_MAX>>
    ELSE IF sport = <<"N", "F", "L">>
    THEN <<NFL_E_MIN, NFL_E_MED, NFL_E_90, NFL_E_99, NFL_E_MAX>>
    ELSE IF sport = <<"m", "l", "b">>
    THEN <<MLB_E_MIN, MLB_E_MED, MLB_E_90, MLB_E_99, MLB_E_MAX>>
    ELSE IF sport \in {<<"N", "C", "A", "A", "F">>, <<"c", "f", "b", " ">>}
    THEN <<NCAAF_E_MIN, NCAAF_E_MED, NCAAF_E_90, NCAAF_E_99, NCAAF_E_MAX>>
    ELSE IF sport \in {<<"N", "C", "A", "A", "B">>, <<"C", "B", "B">>,
                       <<"n", "c", "a", "a", "m">>}
    THEN <<NCAAB_E_MIN, NCAAB_E_MED, NCAAB_E_90, NCAAB_E_99, NCAAB_E_MAX>>
    ELSE <<>>

\* C16: for every sport key, recognized or not, and every non-negative
\* excitement value, values far beyond E_MAX included, the score is an
\* integer from 40 to 100.
C16_ScoreInRange == \A i \in Scored : last.scores[i] \in 40..100

\* C16 witness: a key without a curve was scored, at zero and far beyond
\* every E_MAX.
C16_Witness ==
    /\ last.sport = <<"W", "N", "B", "A">>
    /\ last.eis = <<0, EIFar>>
    /\ Len(last.scores) = 2

\* C17: for a fixed sport key two calls with the same excitement value give
\* the same score, and a smaller excitement value never gives a greater
\* score, band boundaries included.
C17_Monotone ==
    Len(last.scores) = 2 =>
        /\ last.eis[1] = last.eis[2] => last.scores[1] = last.scores[2]
        /\ last.eis[1] < last.eis[2] => last.scores[1] <= last.scores[2]

\* C17 witness: two values on either side of the E_MED boundary of the NBA
\* curve were scored.
C17_Witness ==
    /\ last.sport = <<"N", "B", "A">>
    /\ last.eis = <<NBA_E_MED, NBA_E_MED + 1>>
    /\ last.scores = <<70, 70>>

\* C18: on each of the five curves the score at E_MIN is 40, at E_MED 70,
\* at E_90 90, at E_99 99 and at E_MAX 100.
C18_AnchorsExact ==
    \A i \in Scored :
        LET a == AnchorsOf(last.sport)
            e == last.eis[i]
        IN  a # <<>> =>
              /\ e = a[1] => last.scores[i] = 40
              /\ e = a[2] => last.scores[i] = 70
              /\ e = a[3] => last.scores[i] = 90
              /\ e = a[4] => last.scores[i] = 99
              /\ e = a[5] => last.scores[i] = 100

\* C18 witness: the college basketball curve was scored at its two upper
\* anchors.
C18_Witness ==
    /\ last.sport = <<"N", "C", "A", "A", "B">>
    /\ last.eis = <<NCAAB_E_99, NCAAB_E_MAX>>
    /\ last.scores = <<99, 100>>

\* r is the integer nearest to base + slope * (e - lo) / (hi - lo), the
\* even one of the two when the value is half way
NearestHalfEven(r, base, slope, e, lo, hi) ==
    LET d == hi - lo
        diff == d * (r - base) - slope * (e - lo)
        dist == IF diff < 0 THEN 0 - diff ELSE diff
    IN  /\ 2 * dist <= d
        /\ 2 * dist = d => r % 2 = 0

\* C19: each of the five curves is the same piecewise-linear shape on its
\* own anchors: 40 up to E_MIN, then linear 40 to 70, 70 to 90, 90 to 99 and
\* 99 to 100 between consecutive anchors, 100 beyond E_MAX, within 40..100
\* and rounded to the nearest integer with ties to even.
C19_SameShape ==
    \A i \in Scored :
        LET a == AnchorsOf(last.sport)
            e == last.eis[i]
            r == last.scores[i]
        IN  a # <<>> =>
              /\ r \in 40..100
              /\ e <= a[1] => r = 40
              /\ (a[1] < e /\ e <= a[2]) => NearestHalfEven(r, 40, 30, e, a[1], a[2])
              /\ (a[2] < e /\ e <= a[3]) => NearestHalfEven(r, 70, 20, e, a[2], a[3])
              /\ (a[3] < e /\ e <= a[4]) => NearestHalfEven(r, 90, 9, e, a[3], a[4])
              /\ (a[4] < e /\ e <= a[5]) => NearestHalfEven(r, 99, 1, e, a[4], a[5])
              /\ e > a[5] => r = 100

\* C19 witness: the NBA curve was scored where it is exactly 40.5 and where
\* it is exactly 41.5.
C19_Witness ==
    /\ last.sport = <<"N", "B", "A">>
    /\ last.eis = <<798100, 1322300>>
    /\ last.scores = <<40, 42>>

\* C20: a key that names no curve scores 40 for every excitement value; a
\* key in lower or mixed case or with whitespace around it scores as the
\* upper-case key does; CFB scores as NCAAF, and CBB and NCAAM as NCAAB.
C20_KeyHandling ==
    \A i \in Scored :
        LET e == last.eis[i]
            r == last.scores[i]
        IN  /\ last.sport \in {<<"W", "N", "B", "A">>, <<"N", " ", "B", "A">>, <<>>}
                => r = 40
            /\ last.sport = <<" ", "n", "b", "A", "\t">> => r = score_nba(e)
            /\ last.sport = <<"m", "l", "b">> => r = score_mlb(e)
            /\ last.sport = <<"c", "f", "b", " ">>
                => r = score_game(<<"N", "C", "A", "A", "F">>, e)
            /\ last.sport \in {<<"C", "B", "B">>, <<"n", "c", "a", "a", "m">>}
                => r = score_game(<<"N", "C", "A", "A", "B">>, e)

\* C20 witness: the alias cfb, in lower case with a trailing blank, was
\* scored at the E_MED and E_90 of the college football curve.
C20_Witness ==
    /\ last.sport = <<"c", "f", "b", " ">>
    /\ last.eis = <<NCAAF_E_MED, NCAAF_E_90>>
    /\ last.scores = <<70, 90>>

-----------------------------------------------------------------------------
(* vibe_tags.py *)

\* the values of PRIMARY_TAGS
PRIMARY_TAGS(k) ==
    CASE k = 99 -> "All-Timer"
      [] k = 95 -> "Classic"
      [] k = 90 -> "Cinematic"
      [] k = 80 -> "High Tempo"
      [] k = 70 -> "Steady"
      [] k = 60 -> "Flat"
      [] k = 50 -> "Routine"
      [] OTHER  -> "Lifeless"

\* max(40, min(100, int(score)))
ClampScore(score) ==
    IF score > 100 THEN 100 ELSE IF score < 40 THEN 40 ELSE score

\* the chain of thresholds on the clamped score
VibeOf(s) ==
    IF s >= 99 THEN PRIMARY_TAGS(99)
    ELSE IF s >= 95 THEN PRIMARY_TAGS(95)
    ELSE IF s >= 90 THEN PRIMARY_TAGS(90)
    ELSE IF s >= 80 THEN PRIMARY_TAGS(80)
    ELSE IF s >= 70 THEN PRIMARY_TAGS(70)
    ELSE IF s >= 60 THEN PRIMARY_TAGS(60)
    ELSE IF s >= 50 THEN PRIMARY_TAGS(50)
    ELSE PRIMARY_TAGS(40)

\* a classifier that tries the lowest tier first
pick_vibe_LowestFirst(score) ==
    IF ClampScore(score) < 50 THEN PRIMARY_TAGS(40)
    ELSE IF ClampScore(score) >= 50 THEN PRIMARY_TAGS(50)
    ELSE VibeOf(ClampScore(score))

pick_vibe(score) == VibeOf(ClampScore(score))

\* the scores handed to pick_vibe run from -VibeRange to VibeRange
VibeRange == 120

VibeInputs == (0 - VibeRange)..VibeRange

\* a caller holds an integer score
InitVibe ==
    /\ pc = "vibe"
    /\ idx = 1
    /\ now = StartTime
    /\ ledger = EmptyLedger
    /\ disk = NoFile
    /\ last \in [op : {"vibe"}, score : VibeInputs, tags : {<<>>}]
    /\ posts = [id \in EventIds |-> 0]
    /\ lastSurfaced = [id \in EventIds |-> NoTime]
    /\ resurfaced = {}
    /\ autoEver = [s \in {"NBA", "WNBA"} |-> {}]
    /\ fbEver = [s \in {"NBA", "WNBA"} |-> {}]
    /\ crashes = 0

\* one call pick_vibe(score)
PickVibe ==
    /\ pc = "vibe"
    /\ last.tags = <<>>
    /\ last' = [last EXCEPT !.tags = <<pick_vibe(last.score)>>]
    /\ UNCHANGED <<pc, idx, now, ledger, disk, posts, lastSurfaced, resurfaced,
                   autoEver, fbEver, crashes>>

NextVibe == PickVibe

SpecVibe == InitVibe /\ [][NextVibe]_vars

\* C21: pick_vibe answers for every integer score, and the highest tier the
\* score reaches wins: All-Timer from 99, Classic for 95-98, Cinematic for
\* 90-94, High Tempo for 80-89, Steady for 70-79, Flat for 60-69, Routine
\* for 50-59 and Lifeless below 50; scores outside 40..100 count as the
\* nearer end.
C21_VibeTiers ==
    last.tags # <<>> =>
        LET s == last.score
            tag == last.tags[1]
        IN  /\ s >= 99 <=> tag = "All-Timer"
            /\ (95 <= s /\ s <= 98) <=> tag = "Classic"
            /\ (90 <= s /\ s <= 94) <=> tag = "Cinematic"
            /\ (80 <= s /\ s <= 89) <=> tag = "High Tempo"
            /\ (70 <= s /\ s <= 79) <=> tag = "Steady"
            /\ (60 <= s /\ s <= 69) <=> tag = "Flat"
            /\ (50 <= s /\ s <= 59) <=> tag = "Routine"
            /\ s < 50 <=> tag = "Lifeless"

\* C21 witness: a score of 98, which reaches six tiers, was tagged Classic.
C21_Witness ==
    /\ last.op = "vibe"
    /\ last.score = 98
    /\ last.tags = <<"Classic">>

\* C22: for every name in SPORTS score_game follows a curve of that sport:
\* the score at an excitement of zero is below the score far beyond E_MAX,
\* instead of being the floor for both.
C22_PolledSportsHaveCurve ==
    (/\ last.op = "score"
     /\ \E i \in 1..Len(SPORTS) : last.sport = Chars(SPORTS[i])
     /\ last.eis = <<0, EIFar>>
     /\ Len(last.scores) = 2)
    => last.scores[1] < last.scores[2]

\* C23: on every curve the five anchors are positive and strictly
\* increasing, so the band an excitement value falls in has a positive width
\* to divide by.
C23_AnchorsIncreasing ==
    \A i \in Scored :
        LET a == AnchorsOf(last.sport)
        IN  a # <<>> =>
              /\ 0 < a[1]
              /\ \A k \in 1..4 : a[k] < a[k + 1]
              /\ Piecewise(last.eis[i], a[1], a[2], a[3], a[4], a[5]).den > 0

\* C23 witness: the MLB curve was scored inside its first and its last band.
C23_Witness ==
    /\ last.sport = <<"m", "l", "b">>
    /\ last.eis = <<MLB_E_MIN + 1, MLB_E_MAX - 1>>
    /\ last.scores = <<40, 100>>

C25_NoStaleExcitement ==
    (IsLeague /\ last.header # "today") =>
        \A i \in 1..Len(last.res.rows) : last.res.rows[i].raw = NoEI

-----------------------------------------------------------------------------
(* espn_adapter.py: _is_national_from_comp and _parse_event.  A missing
   value (None) and the empty string are both written "" *)

\* the walk over comp["broadcasts"] from position i with the backup name
\* kept so far
RECURSIVE NationalFrom(_, _, _)
RECURSIVE NationalStep(_, _, _, _, _)
NationalFrom(broadcasts, i, best_name) ==
    IF i > Len(broadcasts) THEN [is_national |-> FALSE, name |-> best_name]
    ELSE \* names, or the broadcasters' names when names is empty
         NationalStep(broadcasts, i, best_name, broadcasts[i],
                      IF broadcasts[i].names = <<>> /\ broadcasts[i].has_broadcasters
                      THEN broadcasts[i].broadcasters
                      ELSE broadcasts[i].names)

\* one broadcast b with its names: a national market returns at once, any
\* other market only supplies a backup name
NationalStep(broadcasts, i, best_name, b, names) ==
    IF b.market = "national"
    THEN [is_national |-> TRUE,
          name |-> IF names # <<>> THEN names[1]
                   ELSE IF b.shortName # "" THEN b.shortName ELSE best_name]
    ELSE NationalFrom(broadcasts, i + 1,
            IF best_name # "" THEN best_name
            ELSE IF b.shortName # "" THEN b.shortName
            ELSE IF names # <<>> /\ names[1] # "" THEN names[1]
            ELSE best_name)

_is_national_from_comp(comp) ==
    IF comp.broadcasts = <<>> THEN [is_national |-> FALSE, name |-> ""]
    ELSE NationalFrom(comp.broadcasts, 1, "")

NoEvent == [parsed |-> FALSE, network |-> "", completed |-> FALSE]

\* _parse_event: None for a competition that is not over or lacks a side,
\* else the compact dict, of which the network and completed fields are kept
_parse_event(comp) ==
    IF ~(comp.state = "post" \/ comp.status_name = "status_final") THEN NoEvent
    ELSE IF ~comp.both_sides THEN NoEvent
    ELSE [parsed |-> TRUE, network |-> _is_national_from_comp(comp).name,
          completed |-> TRUE]

\* the broadcasts of a competition: at most MaxBroadcasts entries
MaxBroadcasts == 2

BroadcastEntries ==
    [market : {"national", "home"}, names : {<<>>, <<"ESPN">>},
     shortName : {"", "MSG"}, has_broadcasters : BOOLEAN,
     broadcasters : {<<>>, <<"NBC">>}]

BroadcastLists ==
    UNION {[1..n -> BroadcastEntries] : n \in 0..MaxBroadcasts}

\* the adapter holds one competition of the scoreboard
InitEspn ==
    /\ pc = "espn"
    /\ idx = 1
    /\ now = StartTime
    /\ ledger = EmptyLedger
    /\ disk = NoFile
    /\ last \in [op : {"espn"},
                 comp : [state : {"post", "in"},
                         status_name : {"status_final", "status_in_progress"},
                         both_sides : BOOLEAN,
                         broadcasts : BroadcastLists],
                 out : {<<>>}]
    /\ posts = [id \in EventIds |-> 0]
    /\ lastSurfaced = [id \in EventIds |-> NoTime]
    /\ resurfaced = {}
    /\ autoEver = [s \in {"NBA", "WNBA"} |-> {}]
    /\ fbEver = [s \in {"NBA", "WNBA"} |-> {}]
    /\ crashes = 0

\* one call _parse_event(league_key, comp, e)
ParseEvent ==
    /\ pc = "espn"
    /\ last.out = <<>>
    /\ last' = [last EXCEPT !.out = <<_parse_event(last.comp)>>]
    /\ UNCHANGED <<pc, idx, now, ledger, disk, posts, lastSurfaced, resurfaced,
                   autoEver, fbEver, crashes>>

NextEspn == ParseEvent

SpecEspn == InitEspn /\ [][NextEspn]_vars

\* C26: the network field of an event the adapter produces is non-empty
\* only if one of the competition's broadcasts is in a national market.
C26_NetworkMeansNational ==
    (last.op = "espn" /\ last.out # <<>> /\ last.out[1].parsed) =>
        (last.out[1].network # "" =>
            \E i \in 1..Len(last.comp.broadcasts) :
                last.comp.broadcasts[i].market = "national")

\* the ledger file holds the entry the process has for the id
OnDisk(id) == disk.state = "ok" /\ disk.data[id] = ledger[id]

\* C27: a failed save_ledger does not raise and leaves the in-memory ledger
\* as it was, the loop goes on to sleep and to the next cycle, and an event
\* that is in the ledger but not in the file (every save since it was
\* surfaced failed) keeps its entry and is not surfaced again by any later
\* step of the same process.
C27_SaveFailureHarmless ==
    [][ /\ (pc = "save" /\ last'.sb = "fail") =>
              (ledger' = ledger /\ pc' = "sleep")
        /\ pc \in {"league", "save", "sleep"} =>
              \A id \in Keys(ledger) :
                  ~OnDisk(id) => (ledger'[id] = ledger[id] /\ posts'[id] = posts[id])
      ]_vars

\* C27 witness: a later cycle, days after the surfacing, sees a final game
\* that meets the per-event rule, is in the ledger and not in the file, and
\* does not surface it.
C27_Witness ==
    /\ IsLeague
    /\ \E i \in GameIdx :
          LET g == last.games[i] IN
          /\ g.is_final
          /\ Strip(g.broadcast) # <<>>
          /\ already_posted(last.before, g.id)
          /\ last.before[g.id].t < last.time
          /\ ~OnDisk(g.id)
          /\ posts[g.id] = 1
          /\ g.id \notin Marked

-----------------------------------------------------------------------------
(* main._today_iso_local and the date a cycle of run() hands to its leagues.
   The clock counts hours of UTC from 2025-12-31 00:00; Los Angeles is 8
   hours behind UTC in winter and 7 in summer. *)

BaseDate == <<2025, 12, 31>>

UtcOffsets == {0 - 8, 0 - 7}

\* the last hour of the clock
MaxClock == 48

ClockStarts == 24..44

IsLeap(y) == (y % 4 = 0 /\ y % 100 # 0) \/ y % 400 = 0

DaysIn(y, m) ==
    IF m = 2 THEN (IF IsLeap(y) THEN 29 ELSE 28)
    ELSE IF m \in {4, 6, 9, 11} THEN 30 ELSE 31

\* date + timedelta(days=1)
NextDate(d) ==
    IF d[3] < DaysIn(d[1], d[2]) THEN <<d[1], d[2], d[3] + 1>>
    ELSE IF d[2] < 12 THEN <<d[1], d[2] + 1, 1>>
    ELSE <<d[1] + 1, 1, 1>>

\* date - timedelta(days=1)
PrevDate(d) ==
    IF d[3] > 1 THEN <<d[1], d[2], d[3] - 1>>
    ELSE IF d[2] > 1 THEN <<d[1], d[2] - 1, DaysIn(d[1], d[2] - 1)>>
    ELSE <<d[1] - 1, 12, 31>>

\* the calendar date n days after BaseDate (n >= -1)
RECURSIVE DateOf(_)
DateOf(n) ==
    IF n = 0 THEN BaseDate
    ELSE IF n < 0 THEN PrevDate(BaseDate)
    ELSE NextDate(DateOf(n - 1))

\* datetime.now(LOCAL_TZ): the wall clock of Los Angeles, in hours
LocalNow(utc, offset) == utc + offset

\* _today_iso_local(): year, month and day of the game day
_today_iso_local(utc, offset) ==
    LET local == LocalNow(utc, offset)
        hour == local % 24
        date == DateOf(local \div 24)
    IN  IF hour < 9 THEN PrevDate(date) ELSE date

Ticks == {0, 1}

InitDay ==
    /\ pc = "day_start"
    /\ idx = 1
    /\ now \in ClockStarts
    /\ ledger = EmptyLedger
    /\ disk = NoFile
    /\ last \in [op : {"day"}, offset : UtcOffsets, at : {NoTime},
                 date_iso : {<<>>}, dates : {<<>>}]
    /\ posts = [id \in EventIds |-> 0]
    /\ lastSurfaced = [id \in EventIds |-> NoTime]
    /\ resurfaced = {}
    /\ autoEver = [s \in {"NBA", "WNBA"} |-> {}]
    /\ fbEver = [s \in {"NBA", "WNBA"} |-> {}]
    /\ crashes = 0

\* line 323: date_iso = _today_iso_local() at the top of a cycle
CycleStart ==
    /\ pc = "day_start"
    /\ last' = [last EXCEPT !.at = LocalNow(now, last.offset),
                            !.date_iso = _today_iso_local(now, last.offset),
                            !.dates = <<>>]
    /\ pc' = "day_league"
    /\ idx' = 1
    /\ UNCHANGED <<now, ledger, disk, posts, lastSurfaced, resurfaced,
                   autoEver, fbEver, crashes>>

\* a loop that asks the clock again for every sport
DayLeague_FreshDate ==
    /\ pc = "day_league"
    /\ last' = [last EXCEPT !.dates = Append(@, _today_iso_local(now, last.offset))]
    /\ \E d \in Ticks : now + d <= MaxClock /\ now' = now + d
    /\ IF idx < Len(SPORTS)
       THEN idx' = idx + 1 /\ pc' = "day_league"
       ELSE idx' = 1 /\ pc' = "day_sleep"
    /\ UNCHANGED <<ledger, disk, posts, lastSurfaced, resurfaced,
                   autoEver, fbEver, crashes>>

\* lines 325-327: _process_league(sport, date_iso, ledger); the call takes
\* time
DayLeague ==
    /\ pc = "day_league"
    /\ last' = [last EXCEPT !.dates = Append(@, last.date_iso)]
    /\ \E d \in Ticks : now + d <= MaxClock /\ now' = now + d
    /\ IF idx < Len(SPORTS)
       THEN idx' = idx + 1 /\ pc' = "day_league"
       ELSE idx' = 1 /\ pc' = "day_sleep"
    /\ UNCHANGED <<ledger, disk, posts, lastSurfaced, resurfaced,
                   autoEver, fbEver, crashes>>

\* lines 331-332: save_ledger and time.sleep, then the next cycle
DaySleep ==
    /\ pc = "day_sleep"
    /\ \E d \in Ticks : now + d <= MaxClock /\ now' = now + d
    /\ pc' = "day_start"
    /\ UNCHANGED <<idx, ledger, disk, last, posts, lastSurfaced, resurfaced,
                   autoEver, fbEver, crashes>>

NextDay == CycleStart \/ DayLeague \/ DaySleep

SpecDay == InitDay /\ [][NextDay]_vars

\* C28: the game day of a cycle is the Los Angeles date of the moment the
\* cycle starts when the local hour is 9 or later and the calendar date
\* before it when the hour is 0 to 8, and every sport of the cycle is
\* processed for that one date.
C28_GameDay ==
    (last.op = "day" /\ last.at # NoTime) =>
        /\ last.date_iso = DateOf(IF last.at % 24 < 9 THEN (last.at \div 24) - 1
                                                      ELSE last.at \div 24)
        /\ \A i \in 1..Len(last.dates) : last.dates[i] = last.date_iso

\* C28 witness: a cycle that started before 9 AM on New Year's Day polled
\* both sports for December 31, the second one after the clock passed 9 AM.
C28_Witness ==
    /\ last.op = "day"
    /\ last.at # NoTime
    /\ last.at % 24 = 8
    /\ LocalNow(now, last.offset) % 24 = 9
    /\ last.dates = <<<<2025, 12, 31>>, <<2025, 12, 31>>>>
    /\ DateOf(last.at \div 24) = <<2026, 1, 1>>

\* C29: a _process_league call leaves every entry that was in the ledger
\* as it was, adds entries only for final events of the scoreboard it got,
\* and leaves the ledger untouched when the scoreboard is empty.
C29_OnlyAdds ==
    IsLeague =>
        /\ \A id \in Keys(last.before) : ledger[id] = last.before[id]
        /\ \A id \in Keys(ledger) \ Keys(last.before) :
              \E i \in GameIdx : last.games[i].id = id /\ last.games[i].is_final
        /\ last.games = <<>> => ledger = last.before

\* C29 witness: a call found a final game that meets the per-event rule and
\* has an older entry, and added an entry for the other final game.
C29_Witness ==
    /\ IsLeague
    /\ Len(last.games) = 2
    /\ \E i, j \in GameIdx :
          /\ last.games[i].is_final
          /\ Strip(last.games[i].broadcast) # <<>>
          /\ already_posted(last.before, last.games[i].id)
          /\ last.before[last.games[i].id].t < last.time
          /\ ~already_posted(last.before, last.games[j].id)
          /\ already_posted(ledger, last.games[j].id)

\* C30: an event the fallback surfaces has, in that call, a score below 70
\* and a broadcast field that is empty once stripped, and the per-event
\* rule surfaces no event in that call.
C30_FallbackBelowBar ==
    (IsLeague /\ last.res.fb # {}) =>
        /\ \A i \in GameIdx :
              last.games[i].id \in last.res.fb =>
                  /\ Row(last.sport, last.games[i], last.emap).score < 70
                  /\ Strip(last.games[i].broadcast) = <<>>
        /\ last.res.auto = {}

\* C30 witness: the fallback surfaced the better of two final games, both
\* scored above 40 and below 70.
C30_Witness ==
    /\ IsLeague
    /\ last.res.fb # {}
    /\ Len(last.games) = 2
    /\ \A i \in GameIdx :
          /\ Row(last.sport, last.games[i], last.emap).score > 40
          /\ Row(last.sport, last.games[i], last.emap).score < 70
    /\ \E i \in GameIdx : last.games[i].id \notin last.res.fb

====
